---- MODULE Spec2Model ----
(***************************************************************************)
(* Model of irgsh.builders.pbuilder.Pbuilder: the per-distribution build   *)
(* root (directories, distribution.json, pbuilder.conf, base.tgz), the     *)
(* argument vectors of the three pbuilder modes, and the control flow of   *)
(* init(), create(), update() and build().                                 *)
(*                                                                         *)
(* Text that the code inspects character by character (configuration       *)
(* values, paths) is a sequence of chunks: a chunk is a run of characters  *)
(* without a space, or one of the single characters " ", "|", "/", "=",    *)
(* the double quote and the newline.  Python values whose type matters     *)
(* (None, int, str) are tagged records.                                    *)
(***************************************************************************)
EXTENDS Integers, Sequences, FiniteSets, TLC

VARIABLES
    builder,     \* caller -> the Pbuilder object it holds (fields of __init__)
    ctor,        \* caller -> the options given to Pbuilder(...) and the error it raised
    callers,     \* the callers that use the build root in this behaviour
    dirs,        \* the directories that exist under the pbuilder root
    writable,    \* whether the pbuilder root tree can be written
    baseTgz,     \* whether <path>/base.tgz exists
    sidecar,     \* <path>/distribution.json
    configfile,  \* <path>/pbuilder.conf
    pc,          \* caller -> position in the running method
    op,          \* caller -> the method the caller invoked
    args,        \* caller -> the arguments of that invocation
    sub,         \* caller -> the Popen object of the method it runs
    seenBase,    \* caller -> what os.path.exists(base.tgz) answered
    lastImage,   \* caller -> the base-image mode of its previous build()
    lastConfig,  \* caller -> pbuilder.conf at the end of its previous call of init()
    imageRet,    \* caller -> what create() or update() returned to build()
    clobbered,   \* caller -> pbuilder.conf was rewritten by another caller
                 \*           while the subprocess of this one was running
    ret,         \* caller -> how the invocation ended
    trace,       \* caller -> the events of the current invocation, in order
    log          \* caller -> the lines sent to self.log in this invocation

vars == <<builder, ctor, callers, dirs, writable, baseTgz, sidecar, configfile,
          pc, op, args, sub, seenBase, lastImage, lastConfig, imageRet, clobbered,
          ret, trace, log>>

-----------------------------------------------------------------------------
(* Bounds *)

MaxExit == 2
MaxList == 2

-----------------------------------------------------------------------------
(* Python values *)

PyNone == [t |-> "none"]

PyInt(i) == [t |-> "int", i |-> i]

PyStr(s) == [t |-> "str", s |-> s]

PyFile(name) == [t |-> "file", name |-> name]

\* No exception.
NoError == [type |-> "", args |-> <<>>]

\* The exit codes a subprocess may end with: Popen.returncode is the exit
\* status, or the negated signal number when the child was killed.
ExitCodes == (0..MaxExit) \cup {-9}

-----------------------------------------------------------------------------
(* Text *)

S(w) == <<w>>

RECURSIVE Flat(_)
\* The chunks of a text as one token.
Flat(s) == IF s = <<>> THEN "" ELSE s[1] \o Flat(Tail(s))

RECURSIVE StrJoin(_, _)
\* sep.join(list)
StrJoin(sep, list) ==
    IF list = <<>> THEN <<>>
    ELSE IF Len(list) = 1 THEN list[1]
    ELSE list[1] \o sep \o StrJoin(sep, Tail(list))

RECURSIVE OsPathJoin(_, _)
\* os.path.join(base, *names) for relative names
OsPathJoin(base, names) ==
    IF names = <<>> THEN base
    ELSE OsPathJoin(base \o <<"/">> \o names[1], Tail(names))

HasSpace(value) == \E i \in 1..Len(value) : value[i] = " "

-----------------------------------------------------------------------------
(* Distribution profiles and builder objects *)

AllComponents == <<S("main"), S("universe"), S("multiverse"), S("restricted")>>

AllExtra == <<S("A"), S("B"), <<"deb", " ", "http://extra/", " ", "lucid">>,
              S("D")>>

\* The distribution value object: k components and k extra repositories.
Distribution(k) ==
    [name       |-> S("lucid"),
     mirror     |-> S("http://mirror/ubuntu/"),
     dist       |-> S("lucid"),
     components |-> SubSeq(AllComponents, 1, k),
     extra      |-> SubSeq(AllExtra, 1, k)]

Distributions == {Distribution(k) : k \in 0..MaxList}

\* A profile of the same name that differs from d.
OtherDistribution(d) == Distribution((Len(d.components) + 1) % (MaxList + 1))

OptValue == [keyring     |-> "/etc/keyring.gpg",
             debootstrap |-> "cdebootstrap",
             mirror      |-> "http://override/",
             arch        |-> "amd64"]

\* The keyword options a builder is constructed with; keyring is always given.
OptsSet == {[k \in D \cup {"keyring"} |-> OptValue[k]] :
                D \in SUBSET {"debootstrap", "mirror", "arch"}}

\* opts.get(key, None)
OptsGet(opts, key) == IF key \in DOMAIN opts THEN PyStr(opts[key]) ELSE PyNone

\* os.path.abspath(pbuilder_path)
PbuilderPath == S("/var/pbuilder")

\* Pbuilder.__init__
Pbuilder(distribution, opts) ==
    [distribution  |-> distribution,
     pbuilder_path |-> PbuilderPath,
     path          |-> OsPathJoin(PbuilderPath, <<distribution.name>>),
     configfile    |-> OsPathJoin(OsPathJoin(PbuilderPath, <<distribution.name>>),
                                  <<S("pbuilder.conf")>>),
     keyring       |-> opts["keyring"],
     debootstrap   |-> OptsGet(opts, "debootstrap"),
     mirror        |-> OptsGet(opts, "mirror"),
     arch          |-> OptsGet(opts, "arch")]

\* The builders: every profile with the keyring alone, and every set of
\* options with one profile.
Builders ==
    {Pbuilder(d, [keyring |-> OptValue["keyring"]]) : d \in Distributions}
    \cup {Pbuilder(Distribution(1), o) : o \in OptsSet}

\* The options of a constructor call that gives no keyring, as the call
\* Pbuilder(distribution, path) of _test_run.
OptsSetNoKeyring == {[k \in D |-> OptValue[k]] : D \in {{}, {"arch"}}}

\* The error of opts[key] for a key that is not among the options.
KeyError(key) == [type |-> "KeyError", args |-> <<PyStr(key)>>]

\* No object: the constructor raised.
NoObject == [distribution |-> "none"]

\* A constructor that reads the keyring with opts.get('keyring', None).
ConstructKeyringOptional(distribution, opts) ==
    [error |-> NoError,
     self  |-> Pbuilder(distribution,
                        IF "keyring" \in DOMAIN opts THEN opts
                        ELSE opts @@ [keyring |-> "None"])]

\* The call Pbuilder(distribution, pbuilder_path, **opts): the object it
\* makes, or the error that self.keyring = opts['keyring'] raises.
Construct(distribution, opts) ==
    IF "keyring" \in DOMAIN opts
    THEN [error |-> NoError, self |-> Pbuilder(distribution, opts)]
    ELSE [error |-> KeyError("keyring"), self |-> NoObject]

\* The constructor calls: one for each of the builders, and the calls
\* without a keyring.
CtorCalls ==
    {[distribution |-> d, opts |-> [keyring |-> OptValue["keyring"]]] :
        d \in Distributions}
    \cup {[distribution |-> Distribution(1), opts |-> o] :
             o \in OptsSet \cup OptsSetNoKeyring}

-----------------------------------------------------------------------------
(* init(): the directory structure *)

SkeletonNames == <<S("aptcache"), S("result"), S("build"), S("hook")>>

\* paths = [self.path] + [os.path.join(self.path) for path in [...]]
InitPaths(b) ==
    <<b.path>> \o [i \in 1..Len(SkeletonNames) |-> OsPathJoin(b.path, <<>>)]

\* os.makedirs(d): d and every missing directory above it, below the root.
Makedirs(ds, d) ==
    ds \cup {SubSeq(d, 1, k) : k \in {j \in (Len(PbuilderPath) + 1)..Len(d) :
                                         d[j] # "/"}}

RECURSIVE MakeMissing(_, _)
\* for path in paths: if not os.path.exists(path): os.makedirs(path)
MakeMissing(ds, paths) ==
    IF paths = <<>> THEN ds
    ELSE MakeMissing(IF paths[1] \in ds THEN ds ELSE Makedirs(ds, paths[1]),
                     Tail(paths))

\* A directory loop that never finds a directory missing.
CallsMakedirsNever(ds, paths) == FALSE

\* Whether the loop reaches an os.makedirs call at all.
CallsMakedirs(ds, paths) == \E i \in 1..Len(paths) : paths[i] \notin ds

-----------------------------------------------------------------------------
(* init(): distribution.json and pbuilder.conf *)

NoFile == [exists |-> FALSE, text |-> <<>>]

File(text) == [exists |-> TRUE, text |-> text]

\* A writer that leaves a file alone when it is already there.
WriteFileIfAbsent(old, text) == IF old.exists THEN old ELSE File(text)

\* The file opened with mode 'a': the text is added to what the file held.
WriteFileAppend(old, text) == File(old.text \o text)

\* f = open(name, 'w'); f.write(text); f.close(): whatever the file held
\* is gone.
WriteFile(old, text) == File(text)

\* json.dumps({...}) of the five fields of the distribution
SidecarText(b) ==
    <<[name       |-> b.distribution.name,
       mirror     |-> b.distribution.mirror,
       dist       |-> b.distribution.dist,
       components |-> b.distribution.components,
       extra      |-> b.distribution.extra]>>

\* def join(*name): return os.path.join(self.path, *name)
join(b, name) == OsPathJoin(b.path, name)

\* An escape that quotes nothing.
escape_never(value) == value

\* def escape(value)
escape(value) ==
    IF HasSpace(value) THEN <<"\"">> \o value \o <<"\"">> ELSE value

components(b) == StrJoin(<<" ">>, b.distribution.components)

\* '|'.join(self.distribution.extra)
othermirror_bare(b) == StrJoin(<<"|">>, b.distribution.extra)

othermirror(b) == StrJoin(<<" ", "|", " ">>, b.distribution.extra)

\* The order in which config.items() yields the nine keys: the iteration
\* order of a dict with these keys, the same on every call.
ConfigKeys == <<"BASETGZ", "APTCACHE", "BUILDRESULT", "BUILDPLACE", "HOOKDIR",
                "MIRRORSITE", "DISTRIBUTION", "COMPONENTS", "OTHERMIRROR">>

config(b) ==
    [BASETGZ      |-> join(b, <<S("base.tgz")>>),
     APTCACHE     |-> join(b, <<S("aptcache")>>),
     BUILDRESULT  |-> join(b, <<S("result")>>),
     BUILDPLACE   |-> join(b, <<S("build")>>),
     HOOKDIR      |-> join(b, <<S("hook")>>),
     MIRRORSITE   |-> b.distribution.mirror,
     DISTRIBUTION |-> b.distribution.dist,
     COMPONENTS   |-> components(b),
     OTHERMIRROR  |-> othermirror(b)]

\* '\n'.join(['%s=%s' % (key, escape(value)) for key, value in config.items()])
ConfigText(b) ==
    StrJoin(<<"\n">>,
            [i \in 1..Len(ConfigKeys) |->
                <<ConfigKeys[i], "=">> \o escape(config(b)[ConfigKeys[i]])])

-----------------------------------------------------------------------------
(* The argument vectors *)

\* The mirror pair guarded by the debootstrap option.
get_extra_pbuilder_cmd_wrong_guard(b) ==
    (IF b.debootstrap # PyNone THEN <<"--debootstrap", b.debootstrap.s>> ELSE <<>>)
    \o (IF b.debootstrap # PyNone
        THEN <<"--mirror", IF b.mirror = PyNone THEN "None" ELSE b.mirror.s>>
        ELSE <<>>)
    \o (IF b.arch # PyNone THEN <<"--architecture", b.arch.s>> ELSE <<>>)

get_extra_pbuilder_cmd(b) ==
    (IF b.debootstrap # PyNone THEN <<"--debootstrap", b.debootstrap.s>> ELSE <<>>)
    \o (IF b.mirror # PyNone THEN <<"--mirror", b.mirror.s>> ELSE <<>>)
    \o (IF b.arch # PyNone THEN <<"--architecture", b.arch.s>> ELSE <<>>)

CreateCmd(b) ==
    <<"sudo", "pbuilder", "--create",
      "--configfile", Flat(b.configfile),
      "--debootstrapopts", "--keyring=" \o b.keyring>>
    \o get_extra_pbuilder_cmd(b)

\* update() without the keyring option
UpdateCmdNoKeyring(b) ==
    <<"sudo", "pbuilder", "--update", "--override-config",
      "--configfile", Flat(b.configfile)>>
    \o get_extra_pbuilder_cmd(b)

UpdateCmd(b) ==
    <<"sudo", "pbuilder", "--update", "--override-config",
      "--configfile", Flat(b.configfile),
      "--debootstrapopts", "--keyring=" \o b.keyring>>
    \o get_extra_pbuilder_cmd(b)

BuildCmd(b, dsc, resultdir) ==
    <<"sudo", "pbuilder", "--build",
      "--configfile", Flat(b.configfile),
      "--buildresult", resultdir,
      "--debootstrapopts", "--debbuildopts -I -i -j9">>
    \o get_extra_pbuilder_cmd(b)
    \o <<dsc>>

\* Popen(cmd, stdout=logger, preexec_fn=os.setsid): stderr is not redirected.
PopenStderrApart(mode, cmd, logger) ==
    [mode       |-> mode,
     cmd        |-> cmd,
     stdout     |-> logger,
     stderr     |-> "None",
     preexec_fn |-> "os.setsid",
     state      |-> "running",
     returncode |-> PyNone]

\* Popen(cmd, stdout=logger, stderr=STDOUT, preexec_fn=os.setsid)
Popen(mode, cmd, logger) ==
    [mode       |-> mode,
     cmd        |-> cmd,
     stdout     |-> logger,
     stderr     |-> "STDOUT",
     preexec_fn |-> "os.setsid",
     state      |-> "running",
     returncode |-> PyNone]

\* Where the standard output of subprocess p goes: into the file object given
\* as stdout, and with stdout=None, which redirects nothing, to the standard
\* output the child inherits from the calling process.
StdoutOf(p) ==
    IF p.stdout = PyNone THEN "stdout of the calling process" ELSE p.stdout.name

\* Where its standard error goes: with stderr=STDOUT to the same place as its
\* standard output, else to the standard error of the calling process.
StderrOf(p) ==
    IF p.stderr = "STDOUT" THEN StdoutOf(p) ELSE "stderr of the calling process"

NoSub == [mode |-> "none", cmd |-> <<>>, stdout |-> PyNone, stderr |-> "",
          preexec_fn |-> "", state |-> "none", returncode |-> PyNone]

-----------------------------------------------------------------------------
(* Callers, invocations and their outcomes *)

Callers == {"c1", "c2"}

Methods == {"init", "create", "update", "build"}

Dscs == {"/src/pkg.dsc", "/src/other.dsc"}

ResultDirs == {"/out"}

Loggers == {PyNone, PyFile("build.log")}

NoArgs == [dsc |-> "", resultdir |-> "", logger |-> PyNone]

\* The arguments a caller may pass to each method.
ArgsOf(m) ==
    IF m = "init" THEN {NoArgs}
    ELSE IF m = "build"
    THEN {[dsc |-> d, resultdir |-> r, logger |-> l] :
             d \in Dscs, r \in ResultDirs, l \in Loggers}
    ELSE {[dsc |-> "", resultdir |-> "", logger |-> l] : l \in Loggers}

\* The methods the callers invoke: any of them when one caller has the
\* root to itself, build() when two callers share it.
MethodsOf(c) == IF callers = {c} THEN Methods ELSE {"build"}

\* One caller calls again and again; of two callers that share the root
\* each runs one build().
MayCall(c) == callers = {c} \/ lastImage[c] = "none"

NoRet == [kind |-> "none", value |-> PyNone, error |-> NoError]

Returned(v) == [kind |-> "returned", value |-> v, error |-> NoError]

Raised(e) == [kind |-> "raised", value |-> PyNone, error |-> e]

\* raise BuildFailedError(dsc)
BuildFailedError(dsc) == [type |-> "BuildFailedError", args |-> <<PyStr(dsc)>>]

\* BaseBuilder.get_changes_file(dsc): the changes file that belongs to dsc.
get_changes_file(dsc) == PyStr(dsc \o ".changes")

\* self.log.debug(msg), self.log.error(msg)
LogLine(level, msg) == [level |-> level, msg |-> msg]

\* The directories of the skeleton, and the states the root may be found in.
SkeletonPaths(b) == {join(b, <<SkeletonNames[i]>>) : i \in 1..Len(SkeletonNames)}

\* Nothing yet, or the distribution directory with none, some or all of the
\* skeleton in it.
InitialDirs(b) ==
    {{}} \cup {{b.path} \cup {join(b, <<SkeletonNames[i]>>) : i \in I} :
                I \in {{}, {1, 2, 4}, 1..Len(SkeletonNames)}}

-----------------------------------------------------------------------------
(* The state after construction *)

InitWith(cs) ==
    /\ callers = cs
    /\ \E k \in CtorCalls, d \in Distributions :
          LET made == [c \in Callers |->
                          Construct(IF c = "c1" THEN k.distribution ELSE d, k.opts)]
              \* the builder of c1, or the one a keyring would have given
              b == Pbuilder(k.distribution,
                            k.opts @@ [keyring |-> OptValue["keyring"]])
              old == Pbuilder(OtherDistribution(k.distribution),
                              k.opts @@ [keyring |-> OptValue["keyring"]])
          IN  /\ builder = [c \in Callers |-> made[c].self]
              /\ ctor = [c \in Callers |->
                            [opts |-> k.opts, error |-> made[c].error]]
              /\ dirs \in InitialDirs(b)
              /\ writable \in BOOLEAN
              /\ baseTgz \in {x \in BOOLEAN : x => b.path \in dirs}
              \* The files are absent, or left by an earlier run for
              \* another profile.
              /\ configfile \in {NoFile} \cup
                    {File(ConfigText(old)) : x \in {y \in {1} : old.path \in dirs}}
              /\ sidecar = IF configfile.exists THEN File(SidecarText(old))
                           ELSE NoFile
    /\ pc = [c \in Callers |-> IF builder[c] = NoObject THEN "no_object" ELSE "idle"]
    /\ op = [c \in Callers |-> "none"]
    /\ args = [c \in Callers |-> NoArgs]
    /\ sub = [c \in Callers |-> NoSub]
    /\ seenBase = [c \in Callers |-> FALSE]
    /\ lastImage = [c \in Callers |-> "none"]
    /\ lastConfig = [c \in Callers |-> NoFile]
    /\ imageRet = [c \in Callers |-> PyNone]
    /\ clobbered = [c \in Callers |-> FALSE]
    /\ ret = [c \in Callers |-> NoRet]
    /\ trace = [c \in Callers |-> <<>>]
    /\ log = [c \in Callers |-> <<>>]

Init == InitWith({"c1"}) /\ builder["c2"] = builder["c1"]

InitConc ==
    /\ InitWith(Callers)
    /\ writable
    /\ dirs = {}
    /\ builder["c1"] = Pbuilder(Distribution(0), [keyring |-> OptValue["keyring"]])
    /\ builder["c2"].distribution \in {Distribution(0), Distribution(1)}

-----------------------------------------------------------------------------
(* A caller invokes a method, and takes its outcome *)

Call(c) ==
    /\ pc[c] = "idle"
    /\ MayCall(c)
    /\ \E m \in MethodsOf(c) : \E a \in ArgsOf(m) :
          /\ callers # {c} => a.logger = PyNone /\ a.dsc = "/src/pkg.dsc"
          /\ op' = [op EXCEPT ![c] = m]
          /\ args' = [args EXCEPT ![c] = a]
          /\ pc' = [pc EXCEPT ![c] = m]
    /\ sub' = [sub EXCEPT ![c] = NoSub]
    /\ ret' = [ret EXCEPT ![c] = NoRet]
    /\ trace' = [trace EXCEPT ![c] = <<>>]
    /\ log' = [log EXCEPT ![c] = <<>>]
    /\ imageRet' = [imageRet EXCEPT ![c] = PyNone]
    /\ clobbered' = [clobbered EXCEPT ![c] = FALSE]
    /\ UNCHANGED <<builder, ctor, callers, dirs, writable, baseTgz, sidecar,
                   configfile, seenBase, lastImage, lastConfig>>

\* The caller has the outcome; the next invocation may start.
Finish(c) ==
    /\ pc[c] \in {"returned", "raised"}
    /\ pc' = [pc EXCEPT ![c] = "idle"]
    /\ op' = [op EXCEPT ![c] = "none"]
    /\ args' = [args EXCEPT ![c] = NoArgs]
    /\ sub' = [sub EXCEPT ![c] = NoSub]
    /\ ret' = [ret EXCEPT ![c] = NoRet]
    /\ trace' = [trace EXCEPT ![c] = <<>>]
    /\ log' = [log EXCEPT ![c] = <<>>]
    /\ seenBase' = [seenBase EXCEPT ![c] = FALSE]
    /\ lastImage' = [lastImage EXCEPT ![c] =
                        IF op[c] = "build" /\ sub[c].mode # "none"
                        THEN IF seenBase[c] THEN "update" ELSE "create"
                        ELSE @]
    /\ lastConfig' = [lastConfig EXCEPT ![c] =
                         IF \E i \in 1..Len(trace[c]) : trace[c][i] = "init_done"
                         THEN configfile ELSE @]
    /\ imageRet' = [imageRet EXCEPT ![c] = PyNone]
    /\ clobbered' = [clobbered EXCEPT ![c] = FALSE]
    /\ UNCHANGED <<builder, ctor, callers, dirs, writable, baseTgz, sidecar, configfile>>

-----------------------------------------------------------------------------
(* init() *)

\* Where control goes when init() returns: to the caller of init(), or back
\* into build().
AfterInit(c) == IF op[c] = "init" THEN "returned" ELSE "check_base"

\* log.debug, then the directory loop.
InitDirs(c) ==
    /\ pc[c] = "init"
    /\ log' = [log EXCEPT ![c] =
          Append(@, LogLine("debug",
              <<"Initializing pbuilder directory structure and settings">>))]
    /\ IF CallsMakedirs(dirs, InitPaths(builder[c])) /\ ~writable
       THEN /\ pc' = [pc EXCEPT ![c] = "raised"]
            /\ ret' = [ret EXCEPT ![c] =
                  Raised([type |-> "OSError",
                          args |-> <<PyStr(Flat(builder[c].path))>>])]
            /\ trace' = [trace EXCEPT ![c] = Append(@, "init_raise")]
            /\ dirs' = dirs
       ELSE /\ dirs' = MakeMissing(dirs, InitPaths(builder[c]))
            /\ pc' = [pc EXCEPT ![c] = "init_sidecar"]
            /\ trace' = [trace EXCEPT ![c] = Append(@, "init_dirs")]
            /\ ret' = ret
    /\ UNCHANGED <<builder, ctor, callers, writable, baseTgz, sidecar, configfile,
                   op, args, sub, seenBase, lastImage, lastConfig,
                   imageRet, clobbered>>

\* open(fname, 'w'); f.write(json.dumps(...)); f.close()
InitSidecar(c) ==
    /\ pc[c] = "init_sidecar"
    /\ IF ~writable \/ builder[c].path \notin dirs
       THEN /\ pc' = [pc EXCEPT ![c] = "raised"]
            /\ ret' = [ret EXCEPT ![c] =
                  Raised([type |-> "IOError",
                          args |-> <<PyStr(Flat(join(builder[c],
                                         <<S("distribution.json")>>)))>>])]
            /\ trace' = [trace EXCEPT ![c] = Append(@, "init_raise")]
            /\ sidecar' = sidecar
       ELSE /\ sidecar' = WriteFile(sidecar, SidecarText(builder[c]))
            /\ pc' = [pc EXCEPT ![c] = "init_config"]
            /\ trace' = [trace EXCEPT ![c] = Append(@, "init_sidecar")]
            /\ ret' = ret
    /\ UNCHANGED <<builder, ctor, callers, dirs, writable, baseTgz, configfile,
                   op, args, sub, seenBase, lastImage, lastConfig, log,
                   imageRet, clobbered>>

\* open(self.configfile, 'w'); f.write(...); f.close(); init() returns
InitConfig(c) ==
    /\ pc[c] = "init_config"
    /\ IF ~writable \/ builder[c].path \notin dirs
       THEN /\ pc' = [pc EXCEPT ![c] = "raised"]
            /\ ret' = [ret EXCEPT ![c] =
                  Raised([type |-> "IOError",
                          args |-> <<PyStr(Flat(builder[c].configfile))>>])]
            /\ trace' = [trace EXCEPT ![c] = Append(@, "init_raise")]
            /\ configfile' = configfile
            /\ clobbered' = clobbered
       ELSE /\ configfile' = WriteFile(configfile, ConfigText(builder[c]))
            /\ pc' = [pc EXCEPT ![c] = AfterInit(c)]
            /\ trace' = [trace EXCEPT ![c] =
                  IF configfile.exists /\ configfile' # configfile
                  THEN @ \o <<"config_replaced", "init_done">>
                  ELSE Append(@, "init_done")]
            /\ ret' = [ret EXCEPT ![c] =
                  IF op[c] = "init" THEN Returned(PyNone) ELSE @]
            /\ clobbered' = [x \in Callers |->
                  clobbered[x] \/ (x # c /\ sub[x].state = "running")]
    /\ UNCHANGED <<builder, ctor, callers, dirs, writable, baseTgz, sidecar,
                   op, args, sub, seenBase, lastImage, lastConfig, log,
                   imageRet>>

-----------------------------------------------------------------------------
(* The pbuilder subprocess *)

\* The subprocess of caller c ends with some exit code.  A successful
\* --create leaves base.tgz behind.
SubExit(c) ==
    /\ sub[c].state = "running"
    /\ \E code \in ExitCodes :
          /\ sub' = [sub EXCEPT ![c].state = "exited",
                                ![c].returncode = PyInt(code)]
          /\ baseTgz' = IF sub[c].mode = "create" /\ code = 0 THEN TRUE
                        ELSE baseTgz
    /\ trace' = [trace EXCEPT ![c] = Append(@, "exit_" \o sub[c].mode)]
    /\ UNCHANGED <<builder, ctor, callers, dirs, writable, sidecar, configfile,
                   pc, op, args, seenBase, lastImage, lastConfig, ret, log,
                   imageRet, clobbered>>

\* Somebody removes base.tgz from the root.
RemoveBase ==
    /\ baseTgz
    /\ baseTgz' = FALSE
    /\ UNCHANGED <<builder, ctor, callers, dirs, writable, sidecar, configfile,
                   pc, op, args, sub, seenBase, lastImage, lastConfig, ret, trace, log,
                   imageRet, clobbered>>

-----------------------------------------------------------------------------
(* create() and update() *)

\* build() that gives up when the base-image step ended with a nonzero
\* exit code.
AfterImageChecked(c) ==
    IF op[c] # "build" THEN "returned"
    ELSE IF sub[c].returncode = PyInt(0) THEN "build_spawn" ELSE "raised"

\* build() that never gets past the return of create() or update().
AfterImageStuck(c) == IF op[c] = "build" THEN "image_done" ELSE "returned"

\* build() that goes through the base-image step once more when it ended
\* with a nonzero exit code.
AfterImageRetry(c) ==
    IF op[c] # "build" THEN "returned"
    ELSE IF /\ sub[c].returncode # PyInt(0)
            /\ Cardinality({i \in 1..Len(trace[c]) : trace[c][i] = "check_base"}) < 2
         THEN "check_base" ELSE "build_spawn"

\* Where control goes when create() or update() returns.
AfterImage(c) == IF op[c] = "build" THEN "build_spawn" ELSE "returned"

\* log.debug, cmd, Popen
CreateSpawn(c) ==
    /\ pc[c] = "create"
    /\ log' = [log EXCEPT ![c] = Append(@, LogLine("debug", <<"Creating base.tgz">>))]
    /\ sub' = [sub EXCEPT ![c] = Popen("create", CreateCmd(builder[c]),
                                       args[c].logger)]
    /\ trace' = [trace EXCEPT ![c] = Append(@, "spawn_create")]
    /\ pc' = [pc EXCEPT ![c] = "create_wait"]
    /\ clobbered' = [clobbered EXCEPT ![c] = FALSE]
    /\ UNCHANGED <<builder, ctor, callers, dirs, writable, baseTgz, sidecar,
                   configfile, op, args, seenBase, lastImage, lastConfig, ret,
                   imageRet>>

\* create() without p.communicate(): it does not wait for the subprocess.
CreateReturnNoWait(c) ==
    /\ pc[c] = "create_wait"
    /\ pc' = [pc EXCEPT ![c] = AfterImage(c)]
    /\ ret' = [ret EXCEPT ![c] =
          IF op[c] = "create" THEN Returned(sub[c].returncode) ELSE @]
    /\ trace' = [trace EXCEPT ![c] = Append(@, "create_done")]
    /\ imageRet' = [imageRet EXCEPT ![c] = IF op[c] = "build" THEN sub[c].returncode ELSE @]
    /\ UNCHANGED <<builder, ctor, callers, dirs, writable, baseTgz, sidecar,
                   configfile, op, args, sub, seenBase, lastImage, lastConfig, log,
                   clobbered>>

\* p.communicate() has returned; return p.returncode
CreateReturn(c) ==
    /\ pc[c] = "create_wait"
    /\ sub[c].state = "exited"
    /\ pc' = [pc EXCEPT ![c] = AfterImage(c)]
    /\ ret' = [ret EXCEPT ![c] =
          IF op[c] = "create" THEN Returned(sub[c].returncode) ELSE @]
    /\ trace' = [trace EXCEPT ![c] = Append(@, "create_done")]
    /\ imageRet' = [imageRet EXCEPT ![c] = IF op[c] = "build" THEN sub[c].returncode ELSE @]
    /\ UNCHANGED <<builder, ctor, callers, dirs, writable, baseTgz, sidecar,
                   configfile, op, args, sub, seenBase, lastImage, lastConfig, log,
                   clobbered>>

UpdateSpawn(c) ==
    /\ pc[c] = "update"
    /\ log' = [log EXCEPT ![c] = Append(@, LogLine("debug", <<"Updating base.tgz">>))]
    /\ sub' = [sub EXCEPT ![c] = Popen("update", UpdateCmd(builder[c]),
                                       args[c].logger)]
    /\ trace' = [trace EXCEPT ![c] = Append(@, "spawn_update")]
    /\ pc' = [pc EXCEPT ![c] = "update_wait"]
    /\ clobbered' = [clobbered EXCEPT ![c] = FALSE]
    /\ UNCHANGED <<builder, ctor, callers, dirs, writable, baseTgz, sidecar,
                   configfile, op, args, seenBase, lastImage, lastConfig, ret,
                   imageRet>>

\* update() that treats a nonzero exit code as an error, like check_call.
UpdateReturnChecked(c) ==
    /\ pc[c] = "update_wait"
    /\ sub[c].state = "exited"
    /\ IF sub[c].returncode # PyInt(0)
       THEN /\ pc' = [pc EXCEPT ![c] = "raised"]
            /\ ret' = [ret EXCEPT ![c] =
                  Raised([type |-> "CalledProcessError",
                          args |-> <<sub[c].returncode>>])]
       ELSE /\ pc' = [pc EXCEPT ![c] = AfterImage(c)]
            /\ ret' = [ret EXCEPT ![c] =
                  IF op[c] = "update" THEN Returned(sub[c].returncode) ELSE @]
    /\ trace' = [trace EXCEPT ![c] = Append(@, "update_done")]
    /\ imageRet' = [imageRet EXCEPT ![c] = IF op[c] = "build" THEN sub[c].returncode ELSE @]
    /\ UNCHANGED <<builder, ctor, callers, dirs, writable, baseTgz, sidecar,
                   configfile, op, args, sub, seenBase, lastImage, lastConfig, log,
                   clobbered>>

UpdateReturn(c) ==
    /\ pc[c] = "update_wait"
    /\ sub[c].state = "exited"
    /\ pc' = [pc EXCEPT ![c] = AfterImage(c)]
    /\ ret' = [ret EXCEPT ![c] =
          IF op[c] = "update" THEN Returned(sub[c].returncode) ELSE @]
    /\ trace' = [trace EXCEPT ![c] = Append(@, "update_done")]
    /\ imageRet' = [imageRet EXCEPT ![c] = IF op[c] = "build" THEN sub[c].returncode ELSE @]
    /\ UNCHANGED <<builder, ctor, callers, dirs, writable, baseTgz, sidecar,
                   configfile, op, args, sub, seenBase, lastImage, lastConfig, log,
                   clobbered>>

-----------------------------------------------------------------------------
(* build() *)

\* build() that holds a lock on the root from its first line to its last.
BuildEnterLocked(c) ==
    /\ pc[c] = "build"
    /\ \A x \in callers \ {c} : pc[x] \in {"idle", "build", "no_object"}
    /\ log' = [log EXCEPT ![c] =
          Append(@, LogLine("debug", <<"Building", args[c].dsc, "to",
                                       args[c].resultdir>>))]
    /\ pc' = [pc EXCEPT ![c] = "init"]
    /\ UNCHANGED <<builder, ctor, callers, dirs, writable, baseTgz, sidecar,
                   configfile, op, args, sub, seenBase, lastImage, lastConfig, ret, trace,
                   imageRet, clobbered>>

\* log.debug, then self.init()
BuildEnter(c) ==
    /\ pc[c] = "build"
    /\ log' = [log EXCEPT ![c] =
          Append(@, LogLine("debug", <<"Building", args[c].dsc, "to",
                                       args[c].resultdir>>))]
    /\ pc' = [pc EXCEPT ![c] = "init"]
    /\ UNCHANGED <<builder, ctor, callers, dirs, writable, baseTgz, sidecar,
                   configfile, op, args, sub, seenBase, lastImage, lastConfig, ret, trace,
                   imageRet, clobbered>>

\* A builder that remembers having been through the base-image step.
BaseMissingSticky(c) == lastImage[c] = "none"

\* if not os.path.exists(os.path.join(self.path, 'base.tgz'))
BaseMissing(c) == ~baseTgz

\* The branch on base.tgz: create() or update()
CheckBase(c) ==
    /\ pc[c] = "check_base"
    /\ seenBase' = [seenBase EXCEPT ![c] = baseTgz]
    /\ pc' = [pc EXCEPT ![c] = IF BaseMissing(c) THEN "create" ELSE "update"]
    /\ trace' = [trace EXCEPT ![c] = Append(@, "check_base")]
    /\ UNCHANGED <<builder, ctor, callers, dirs, writable, baseTgz, sidecar,
                   configfile, op, args, sub, lastImage, lastConfig, ret, log,
                   imageRet, clobbered>>

\* cmd, Popen of the build mode
BuildSpawn(c) ==
    /\ pc[c] = "build_spawn"
    /\ sub' = [sub EXCEPT ![c] =
          Popen("build", BuildCmd(builder[c], args[c].dsc, args[c].resultdir),
                args[c].logger)]
    /\ trace' = [trace EXCEPT ![c] = Append(@, "spawn_build")]
    /\ pc' = [pc EXCEPT ![c] = "build_wait"]
    /\ clobbered' = [clobbered EXCEPT ![c] = FALSE]
    /\ UNCHANGED <<builder, ctor, callers, dirs, writable, baseTgz, sidecar,
                   configfile, op, args, seenBase, lastImage, lastConfig, ret, log,
                   imageRet>>

\* raise BuildFailedError(dsc, p.returncode)
BuildErrorWithCode(dsc, returncode) ==
    [type |-> "BuildFailedError", args |-> <<PyStr(dsc), returncode>>]

\* The error build() raises for a failed build.
BuildError(dsc, returncode) == BuildFailedError(dsc)

\* if p.returncode > 0
BuildFailedPositive(returncode) == returncode.i > 0

\* if p.returncode != 0
BuildFailed(returncode) == returncode # PyInt(0)

\* self.log.debug('Error building package %s: %s' % (dsc, p.returncode))
ErrorLineDebug(dsc, returncode) ==
    LogLine("debug", <<"Error building package", dsc, ToString(returncode.i)>>)

\* self.log.error('Error building package %s: %s' % (dsc, p.returncode))
ErrorLine(dsc, returncode) ==
    LogLine("error", <<"Error building package", dsc, ToString(returncode.i)>>)

\* p.communicate() has returned; log and raise, or return the changes file
BuildClassify(c) ==
    /\ pc[c] = "build_wait"
    /\ sub[c].state = "exited"
    /\ IF BuildFailed(sub[c].returncode)
       THEN /\ log' = [log EXCEPT ![c] =
                  Append(@, ErrorLine(args[c].dsc, sub[c].returncode))]
            /\ ret' = [ret EXCEPT ![c] =
                  Raised(BuildError(args[c].dsc, sub[c].returncode))]
            /\ trace' = [trace EXCEPT ![c] = @ \o <<"log_error", "build_raise">>]
            /\ pc' = [pc EXCEPT ![c] = "raised"]
       ELSE /\ log' = log
            /\ ret' = [ret EXCEPT ![c] = Returned(get_changes_file(args[c].dsc))]
            /\ trace' = [trace EXCEPT ![c] = Append(@, "build_return")]
            /\ pc' = [pc EXCEPT ![c] = "returned"]
    /\ UNCHANGED <<builder, ctor, callers, dirs, writable, baseTgz, sidecar,
                   configfile, op, args, sub, seenBase, lastImage, lastConfig,
                   imageRet, clobbered>>

-----------------------------------------------------------------------------
(* Specifications *)

Next ==
    \/ \E c \in callers : Call(c)
    \/ \E c \in callers : Finish(c)
    \/ \E c \in callers : InitDirs(c)
    \/ \E c \in callers : InitSidecar(c)
    \/ \E c \in callers : InitConfig(c)
    \/ \E c \in callers : SubExit(c)
    \/ \E c \in callers : CreateSpawn(c)
    \/ \E c \in callers : CreateReturn(c)
    \/ \E c \in callers : UpdateSpawn(c)
    \/ \E c \in callers : UpdateReturn(c)
    \/ \E c \in callers : BuildEnter(c)
    \/ \E c \in callers : CheckBase(c)
    \/ \E c \in callers : BuildSpawn(c)
    \/ \E c \in callers : BuildClassify(c)
    \/ RemoveBase

\* One caller uses the build root.
Spec == Init /\ [][Next]_vars

\* Two callers use the same build root at the same time.
SpecConc == InitConc /\ [][Next]_vars

\* The statement at which the method of caller c stands; Python runs it.
Progress(c) ==
    \/ BuildEnter(c) \/ InitDirs(c) \/ InitSidecar(c) \/ InitConfig(c)
    \/ CheckBase(c) \/ CreateSpawn(c) \/ CreateReturn(c)
    \/ UpdateSpawn(c) \/ UpdateReturn(c) \/ BuildSpawn(c) \/ BuildClassify(c)

\* One builder, with every option, on each of the roots it may find.
InitLive ==
    /\ Init
    /\ builder["c1"] = Pbuilder(Distribution(1), OptValue)

\* One caller; a method that has a next statement runs it, and a running
\* subprocess comes to its end.
SpecLive ==
    /\ InitLive
    /\ [][Next]_vars
    /\ \A c \in Callers : WF_vars(Progress(c)) /\ WF_vars(SubExit(c))

-----------------------------------------------------------------------------
(* Reading a trace, an argument vector and a configuration text *)

\* The positions of event e in trace t.
At(t, e) == {i \in 1..Len(t) : t[i] = e}

Happened(t, e) == At(t, e) # {}

\* Every e2 in t has an e1 somewhere before it.
Precedes(t, e1, e2) == \A i \in At(t, e2) : \E j \in At(t, e1) : j < i

RECURSIVE Split(_, _)
\* The pieces of text between the chunks equal to sep.
Split(text, sep) ==
    IF \A i \in 1..Len(text) : text[i] # sep THEN <<text>>
    ELSE LET i == CHOOSE k \in 1..Len(text) :
                     text[k] = sep /\ \A j \in 1..(k - 1) : text[j] # sep
         IN  <<SubSeq(text, 1, i - 1)>> \o Split(SubSeq(text, i + 1, Len(text)), sep)

\* The lines of a configuration text that set key.
LinesOf(text, key) ==
    LET lines == Split(text, "\n") IN
    {lines[i] : i \in {k \in 1..Len(lines) :
                          Len(lines[k]) >= 2 /\ lines[k][1] = key /\ lines[k][2] = "="}}

\* What stands right of KEY= on a line.
RawValue(line) == SubSeq(line, 3, Len(line))

\* A value without the double quotes around it, if it has them.
Unquote(raw) ==
    IF Len(raw) >= 2 /\ raw[1] = "\"" /\ raw[Len(raw)] = "\""
    THEN SubSeq(raw, 2, Len(raw) - 1)
    ELSE raw

\* The values a configuration text gives to key.
ValuesOf(text, key) == {Unquote(RawValue(l)) : l \in LinesOf(text, key)}

\* The callers whose current call has completed init().
Initialized == {c \in callers : Happened(trace[c], "init_done")}

\* The calls that are build() calls.
Building == {c \in callers : op[c] = "build"}

-----------------------------------------------------------------------------
(* C1 *)

\* C1: within one build() call init() has completed before the create or
\* update subprocess is spawned, that subprocess has exited before the
\* build subprocess is spawned, and none of the three steps is skipped:
\* the build subprocess is spawned only after exactly the sequence
\* init done, check, spawn of create or update, its exit, its return.
C1_StepsInOrder ==
    \A c \in Building :
        LET t == trace[c] IN
        /\ Precedes(t, "init_done", "spawn_create")
        /\ Precedes(t, "init_done", "spawn_update")
        /\ Precedes(t, "spawn_create", "exit_create")
        /\ Precedes(t, "spawn_update", "exit_update")
        /\ \A i \in At(t, "spawn_build") :
              /\ \E j \in 1..(i - 1) : \E m \in {"create", "update"} :
                    /\ t[j] = "exit_" \o m
                    /\ \E k \in 1..(j - 1) : t[k] = "spawn_" \o m
              /\ \E j \in 1..(i - 1) : t[j] = "init_done"
        \* while a base-image subprocess runs, build() is waiting for it
        /\ (sub[c].state = "running" /\ sub[c].mode \in {"create", "update"})
              => pc[c] = sub[c].mode \o "_wait"
        /\ pc[c] \in {"build_spawn", "build_wait"}
              => /\ Happened(t, "init_done")
                 /\ Happened(t, "exit_create") \/ Happened(t, "exit_update")

\* A build() has spawned the build subprocess after a create that exited.
C1_Witness ==
    \E c \in Building :
        /\ sub[c].mode = "build"
        /\ Happened(trace[c], "exit_create")
        /\ Happened(trace[c], "spawn_build")

-----------------------------------------------------------------------------
(* C2 *)

\* C2: in every build() call the base-image step runs create if and only
\* if base.tgz was absent when it was checked, and update if and only if
\* it was present; nothing else decides, so a build() after base.tgz was
\* removed runs create again.
C2_CreateIffAbsent ==
    \A c \in Building :
        LET t == trace[c]
            creating == pc[c] \in {"create", "create_wait"}
                        \/ Happened(t, "spawn_create")
            updating == pc[c] \in {"update", "update_wait"}
                        \/ Happened(t, "spawn_update")
        IN  /\ Happened(t, "check_base") => (creating <=> ~seenBase[c])
            /\ Happened(t, "check_base") => (updating <=> seenBase[c])
            /\ ~Happened(t, "check_base") => ~creating /\ ~updating
            /\ ~(Happened(t, "spawn_create") /\ Happened(t, "spawn_update"))

\* A build() that runs create although an earlier build() of the same
\* caller already went through the base-image step: base.tgz was removed
\* (or never made) in between.
C2_Witness ==
    \E c \in Building :
        /\ lastImage[c] = "update"
        /\ Happened(trace[c], "spawn_create")
        /\ sub[c].mode = "create"

-----------------------------------------------------------------------------
(* C3 *)

BuildOutcomeOk(c) ==
    LET code == sub[c].returncode IN
    /\ code.t = "int"
    /\ code.i # 0 =>
          /\ pc[c] = "raised"
          /\ ret[c].kind = "raised"
          /\ ret[c].error.type = "BuildFailedError"
          /\ \E i \in 1..Len(ret[c].error.args) :
                ret[c].error.args[i] = PyStr(args[c].dsc)
          /\ ret[c].value = PyNone
    /\ code.i = 0 =>
          /\ pc[c] = "returned"
          /\ ret[c] = Returned(get_changes_file(args[c].dsc))

\* C3: build() raises BuildFailedError carrying dsc, and returns nothing,
\* for every nonzero exit code of the build subprocess; it returns the
\* changes file of dsc, and raises nothing, for exit code 0; and either
\* outcome is final: the call does nothing after it.
C3_ExitCodeClassified ==
    /\ [](\A c \in Building :
             (sub[c].mode = "build" /\ pc[c] \notin {"build_wait"})
                => BuildOutcomeOk(c))
    /\ [][\A c \in Building :
             pc[c] \in {"returned", "raised"}
                => /\ pc'[c] \in {pc[c], "idle"}
                   /\ pc'[c] = pc[c] => ret'[c] = ret[c] /\ sub'[c] = sub[c]]_vars

\* A build() has raised for a subprocess killed by a signal.
C3_Witness ==
    \E c \in Building :
        /\ pc[c] = "raised"
        /\ sub[c].mode = "build"
        /\ sub[c].returncode = PyInt(-9)

-----------------------------------------------------------------------------
(* C4 *)

\* The build() calls that ended with BuildFailedError.
BuildFailures ==
    {c \in Building : pc[c] = "raised" /\ ret[c].error.type = "BuildFailedError"}

Carries(error, v) == \E i \in 1..Len(error.args) : error.args[i] = v

\* C4 as claimed: the error of a failed build carries both dsc and the
\* exit code of the build subprocess.
C4_ErrorCarriesDscAndCode ==
    \A c \in BuildFailures :
        /\ Carries(ret[c].error, PyStr(args[c].dsc))
        /\ Carries(ret[c].error, sub[c].returncode)

\* C4 as amended: the error of a failed build carries dsc and nothing
\* else; the exit code is not in the error, it is in the error line that
\* build() logged last.
C4_ErrorCarriesDscOnly ==
    \A c \in BuildFailures :
        /\ ret[c].error.args = <<PyStr(args[c].dsc)>>
        /\ ~Carries(ret[c].error, sub[c].returncode)
        /\ log[c] # <<>>
        /\ log[c][Len(log[c])] =
              LogLine("error", <<"Error building package", args[c].dsc,
                                 ToString(sub[c].returncode.i)>>)

\* A build() has failed with exit code 2.
C4_Witness ==
    \E c \in BuildFailures : sub[c].returncode = PyInt(2)

-----------------------------------------------------------------------------
(* C5 *)

\* flag and value are neighbours in cmd.
HasPair(cmd, flag, value) ==
    \E i \in 1..(Len(cmd) - 1) : cmd[i] = flag /\ cmd[i + 1] = value

Contains(cmd, token) == At(cmd, token) # {}

\* The callers that have spawned a subprocess.
Spawned == {c \in callers : sub[c].mode \in {"create", "update", "build"}}

KeyringToken(b) == "--keyring=" \o b.keyring

\* C5 as claimed: the argument vector of create, update and build holds
\* the configuration file path and the keyring.
C5_AllHaveConfigAndKeyring ==
    \A c \in Spawned :
        /\ Contains(sub[c].cmd, Flat(builder[c].configfile))
        /\ Contains(sub[c].cmd, KeyringToken(builder[c]))

\* C5 as amended: the argument vector of create, update and build holds
\* --configfile <configuration file>; that of create and update holds the
\* keyring, as --debootstrapopts --keyring=<keyring>; that of build holds
\* no keyring.
C5_ConfigAlwaysKeyringForImage ==
    \A c \in Spawned :
        /\ HasPair(sub[c].cmd, "--configfile", Flat(builder[c].configfile))
        /\ sub[c].mode \in {"create", "update"}
              => HasPair(sub[c].cmd, "--debootstrapopts", KeyringToken(builder[c]))
        /\ sub[c].mode = "build"
              => ~Contains(sub[c].cmd, KeyringToken(builder[c]))

\* An update and a build subprocess have been spawned.
C5_Witness ==
    /\ \E c \in Spawned : sub[c].mode = "build" /\ Happened(trace[c], "exit_update")

-----------------------------------------------------------------------------
(* C6 *)

\* C6 as claimed: when init() has returned, the four directories of the
\* skeleton exist under <root>/<distribution.name>.
C6_SkeletonExists ==
    \A c \in callers :
        (op[c] = "init" /\ pc[c] = "returned" /\ writable)
            => SkeletonPaths(builder[c]) \subseteq dirs

-----------------------------------------------------------------------------
(* C7 *)

Count(cmd, token) == Cardinality(At(cmd, token))

\* The three options, the builder field of each and its flag.
ExtraOptions == {<<"debootstrap", "--debootstrap">>, <<"mirror", "--mirror">>,
                 <<"arch", "--architecture">>}

\* C7: for debootstrap, mirror and arch, the argument vector of create,
\* update and build holds the flag once, followed by the value, when the
\* option was given to the constructor, and does not hold the flag when
\* it was not.
C7_OptionalFlags ==
    \A c \in Spawned : \A o \in ExtraOptions :
        LET value == builder[c][o[1]] IN
        IF value # PyNone
        THEN /\ Count(sub[c].cmd, o[2]) = 1
             /\ HasPair(sub[c].cmd, o[2], value.s)
        ELSE Count(sub[c].cmd, o[2]) = 0

\* A build subprocess was spawned by a builder with an architecture and
\* without a mirror.
C7_Witness ==
    \E c \in Spawned :
        /\ sub[c].mode = "build"
        /\ builder[c].arch # PyNone
        /\ builder[c].mirror = PyNone
        /\ builder[c].debootstrap # PyNone

-----------------------------------------------------------------------------
(* C8 *)

\* C8: init() is idempotent on the configuration file: when a call of
\* init() has completed, the file holds the rendering of the builder's
\* profile and nothing of what it held before, and it holds exactly what
\* it held at the end of the caller's previous call of init().
C8_InitIdempotent ==
    \A c \in Initialized :
        /\ configfile = File(ConfigText(builder[c]))
        /\ lastConfig[c].exists => configfile = lastConfig[c]

\* init() has returned for the second time, for a profile with extra
\* repositories.
C8_Witness ==
    \E c \in Initialized :
        /\ op[c] = "init"
        /\ pc[c] = "returned"
        /\ lastConfig[c].exists
        /\ Len(builder[c].distribution.extra) = 2

-----------------------------------------------------------------------------
(* C9 *)

\* C9 as claimed: in the configuration init() has written, the value of
\* OTHERMIRROR is the extra repositories with a bare "|" between them,
\* and the value of COMPONENTS is the components with one space between
\* them.
C9_BarePipe ==
    \A c \in Initialized :
        /\ ValuesOf(configfile.text, "OTHERMIRROR")
              = {StrJoin(<<"|">>, builder[c].distribution.extra)}
        /\ ValuesOf(configfile.text, "COMPONENTS")
              = {StrJoin(<<" ">>, builder[c].distribution.components)}

\* C9 as amended: the value of OTHERMIRROR is the extra repositories with
\* " | " (space, pipe, space) between them, so ["A","B"] gives A | B, and
\* the value of COMPONENTS is the components with one space between them.
C9_SpacedPipe ==
    \A c \in Initialized :
        /\ ValuesOf(configfile.text, "OTHERMIRROR")
              = {StrJoin(<<" ", "|", " ">>, builder[c].distribution.extra)}
        /\ ValuesOf(configfile.text, "COMPONENTS")
              = {StrJoin(<<" ">>, builder[c].distribution.components)}

\* init() has written the configuration of the profile with the extra
\* repositories A and B: OTHERMIRROR="A | B".
C9_Witness ==
    \E c \in Initialized :
        /\ builder[c].distribution.extra = <<S("A"), S("B")>>
        /\ <<"OTHERMIRROR", "=", "\"", "A", " ", "|", " ", "B", "\"">>
              \in LinesOf(configfile.text, "OTHERMIRROR")

-----------------------------------------------------------------------------
(* C10 *)

\* The calls of create() and update() made by the caller itself.
ImageCalls == {c \in callers : op[c] \in {"create", "update"}}

\* C10: create() and update() return only when their subprocess has
\* exited, they return its exit code as it is, zero or not, and they
\* never raise.
C10_ExitCodeReturned ==
    \A c \in ImageCalls :
        /\ pc[c] # "raised"
        /\ pc[c] = "returned" =>
              /\ sub[c].mode = op[c]
              /\ sub[c].state = "exited"
              /\ sub[c].returncode.t = "int"
              /\ ret[c] = Returned(sub[c].returncode)

\* update() has returned the exit code 2.
C10_Witness ==
    \E c \in ImageCalls :
        /\ pc[c] = "returned"
        /\ op[c] = "update"
        /\ ret[c].value = PyInt(2)

-----------------------------------------------------------------------------
(* C11 *)

\* The callers whose constructor call gave no keyring.
NoKeyring == {c \in callers : "keyring" \notin DOMAIN ctor[c].opts}

-----------------------------------------------------------------------------
(* C12 *)

\* The callers inside build() to which create() or update() has returned.
PastImage == {c \in Building : imageRet[c] # PyNone}

\* C12: whatever exit code create() or update() returned, build() goes on to
\* spawn the build subprocess: a nonzero exit code of the base-image step
\* raises nothing and stops nothing, and build() raises or returns by the
\* exit code of the build subprocess alone.
C12_ImageExitIgnored ==
    \A c \in PastImage :
        /\ pc[c] \in {"build_spawn", "build_wait", "returned", "raised"}
        /\ pc[c] = "build_spawn" => ret[c] = NoRet
        /\ pc[c] # "build_spawn" => sub[c].mode = "build"
        /\ pc[c] = "raised" =>
              /\ ret[c].error.type = "BuildFailedError"
              /\ sub[c].returncode # PyInt(0)
        /\ pc[c] = "returned" =>
              /\ ret[c] = Returned(get_changes_file(args[c].dsc))
              /\ sub[c].returncode = PyInt(0)

\* build() returned the changes file although the base-image step had
\* ended with a nonzero exit code.
C12_Witness ==
    \E c \in PastImage :
        /\ pc[c] = "returned"
        /\ imageRet[c] # PyInt(0)
        /\ sub[c].mode = "build"
        /\ sub[c].returncode = PyInt(0)

-----------------------------------------------------------------------------
(* C13 *)

\* The lines of error severity in the log of the invocation of c.
ErrorLines(c) == {i \in 1..Len(log[c]) : log[c][i].level = "error"}

\* C13: when build() raises BuildFailedError, the same call has before the
\* raise logged a line of error severity that names the dsc and the exit
\* code; a build() whose build subprocess exits with 0 logs no such line.
C13_ErrorLoggedBeforeRaise ==
    \A c \in Building :
        /\ ret[c].error.type = "BuildFailedError" =>
              /\ \E i \in ErrorLines(c) :
                    /\ Contains(log[c][i].msg, args[c].dsc)
                    /\ Contains(log[c][i].msg, ToString(sub[c].returncode.i))
              /\ Precedes(trace[c], "log_error", "build_raise")
        /\ pc[c] = "returned" => ErrorLines(c) = {}
        /\ Happened(trace[c], "log_error") => Happened(trace[c], "build_raise")

\* build() raised BuildFailedError for a build killed by a signal, after it
\* had logged the error line.
C13_Witness ==
    \E c \in Building :
        /\ pc[c] = "raised"
        /\ ret[c].error.type = "BuildFailedError"
        /\ sub[c].returncode = PyInt(-9)
        /\ ErrorLines(c) # {}

-----------------------------------------------------------------------------
(* C14 *)

\* C14: two build() calls on one root do not exclude each other: wherever
\* a call stands, its next step can be taken, whatever the other call is
\* doing at that moment.
C14_NoMutualExclusion ==
    \A c \in callers :
        /\ pc[c] = "build" => ENABLED BuildEnter(c)
        /\ pc[c] = "init" => ENABLED InitDirs(c)
        /\ pc[c] = "init_sidecar" => ENABLED InitSidecar(c)
        /\ pc[c] = "init_config" => ENABLED InitConfig(c)
        /\ pc[c] = "check_base" => ENABLED CheckBase(c)
        /\ pc[c] = "create" => ENABLED CreateSpawn(c)
        /\ pc[c] = "update" => ENABLED UpdateSpawn(c)
        /\ pc[c] = "build_spawn" => ENABLED BuildSpawn(c)

\* Started on a root without base.tgz, both calls found it absent and both
\* spawned pbuilder --create; the subprocess of one still runs while the
\* other call has written its own pbuilder.conf over the file it reads.
C14_Witness ==
    \E c \in callers, x \in callers :
        /\ c # x
        /\ op[c] = "build" /\ op[x] = "build"
        /\ ~seenBase[c] /\ ~seenBase[x]
        /\ sub[c].mode = "create" /\ sub[x].mode = "create"
        /\ sub[c].state = "running"
        /\ clobbered[c]
        /\ configfile = File(ConfigText(builder[x]))
        /\ configfile # File(ConfigText(builder[c]))

-----------------------------------------------------------------------------
(* C15 *)

\* C15: with one caller on the root, when build() spawns the build
\* subprocess pbuilder.conf holds the rendering of the profile of this
\* builder, whatever the file held before the call.
C15_ConfigCurrentAtBuild ==
    \A c \in callers :
        callers = {c} /\ op[c] = "build" /\ pc[c] \in {"build_spawn", "build_wait"}
            => configfile = File(ConfigText(builder[c]))

\* The build subprocess was spawned in a call whose init() had found the
\* rendering of another profile in pbuilder.conf.
C15_Witness ==
    \E c \in callers :
        /\ callers = {c}
        /\ pc[c] = "build_wait"
        /\ sub[c].mode = "build"
        /\ Happened(trace[c], "config_replaced")
        /\ configfile = File(ConfigText(builder[c]))

-----------------------------------------------------------------------------
(* C16 *)

\* C16: one build() call spawns at most one base-image subprocess, either
\* --create or --update and never both, and at most one build subprocess;
\* nothing is retried.
C16_NoRetry ==
    \A c \in Building :
        LET n(e) == Count(trace[c], e) IN
        /\ n("spawn_create") + n("spawn_update") <= 1
        /\ n("spawn_build") <= 1
        /\ n("check_base") <= 1
        /\ n("spawn_build") = 1 => n("spawn_create") + n("spawn_update") = 1

\* A build() whose base-image step and build both failed ended after one
\* subprocess of each.
C16_Witness ==
    \E c \in Building :
        /\ pc[c] = "raised"
        /\ imageRet[c] \notin {PyNone, PyInt(0)}
        /\ ret[c].error.type = "BuildFailedError"
        /\ Count(trace[c], "spawn_create") + Count(trace[c], "spawn_update") = 1
        /\ Count(trace[c], "spawn_build") = 1

-----------------------------------------------------------------------------
(* C17 *)

\* C17: when the directory loop of init() fails on a read-only root, the
\* error reaches the caller of init() or build(): the failing step writes
\* neither distribution.json nor pbuilder.conf and makes no directory, and
\* the call ends there, without any subprocess.
C17_MakedirsFailureRaised ==
    /\ [][\A c \in callers :
             pc[c] = "init" /\ pc'[c] # "init"
                 /\ ~writable /\ builder[c].path \notin dirs
             => /\ pc'[c] = "raised"
                /\ ret'[c].error.type = "OSError"
                /\ sidecar' = sidecar
                /\ configfile' = configfile
                /\ dirs' = dirs]_vars
    /\ [](\A c \in callers :
             ret[c].error.type = "OSError"
             => /\ pc[c] = "raised"
                /\ op[c] \in {"init", "build"}
                /\ trace[c] = <<"init_raise">>
                /\ sub[c] = NoSub)

\* build() ended with the error of os.makedirs on a read-only root.
C17_Witness ==
    \E c \in callers :
        /\ op[c] = "build"
        /\ pc[c] = "raised"
        /\ ret[c].error.type = "OSError"
        /\ ~writable
        /\ ~configfile.exists

-----------------------------------------------------------------------------
(* C18 *)

\* The invocation of c has ended.
Terminal(c) == pc[c] \in {"returned", "raised"}

\* build() returned the changes file.
Succeeded(c) ==
    /\ op[c] = "build" /\ pc[c] = "returned"
    /\ ret[c] = Returned(get_changes_file(args[c].dsc))

\* build() raised BuildFailedError.
Failed(c) ==
    /\ op[c] = "build" /\ pc[c] = "raised"
    /\ ret[c].error.type = "BuildFailedError"

\* init() done, then the base image done, then the build spawned, then the
\* outcome: each once, in this order.
PassedInOrder(t) ==
    LET rootReady    == At(t, "init_done")
        imageReady   == At(t, "create_done") \cup At(t, "update_done")
        buildRunning == At(t, "spawn_build")
        outcome      == At(t, "build_return") \cup At(t, "build_raise")
    IN  /\ Cardinality(rootReady) = 1 /\ Cardinality(imageReady) = 1
        /\ Cardinality(buildRunning) = 1 /\ Cardinality(outcome) = 1
        /\ \A i \in rootReady, j \in imageReady, k \in buildRunning, l \in outcome :
              i < j /\ j < k /\ k < l /\ l = Len(t)

\* C18: if every subprocess comes to its end, a build() whose init() went
\* through ends as exactly one of succeeded and failed, after init(), the
\* base image and the spawn of the build in this order; a build() whose
\* init() raised ends with that error; and an ended call moves no further.
C18_BuildTerminates ==
    /\ \A c \in Callers :
          /\ (pc[c] = "build") ~> (op[c] = "build" /\ Terminal(c))
          /\ (op[c] = "build" /\ pc[c] = "check_base") ~> (Succeeded(c) \/ Failed(c))
    /\ [](\A c \in Callers :
             op[c] = "build" /\ Terminal(c) /\ Happened(trace[c], "init_done")
             => /\ Succeeded(c) \/ Failed(c)
                /\ ~(Succeeded(c) /\ Failed(c))
                /\ PassedInOrder(trace[c]))
    /\ [][\A c \in Callers : Terminal(c) => pc'[c] \in {pc[c], "idle"}]_vars

\* A build() that updated the base image succeeded.
C18_Witness ==
    \E c \in callers :
        /\ Succeeded(c)
        /\ PassedInOrder(trace[c])
        /\ Happened(trace[c], "update_done")

-----------------------------------------------------------------------------
(* C19 *)

\* The positions of the lines that set key.
LinesAt(lines, key) ==
    {i \in 1..Len(lines) :
        Len(lines[i]) >= 2 /\ lines[i][1] = key /\ lines[i][2] = "="}

Quoted(value) == <<"\"">> \o value \o <<"\"">>

\* C19: pbuilder.conf as init() writes it has one KEY=VALUE entry per line
\* and each of the nine keys on exactly one line; a value with a space in
\* it stands between double quotes, a value without stands bare.
C19_QuotedIffSpace ==
    \A c \in Initialized :
        LET lines == Split(configfile.text, "\n")
            value == config(builder[c])
        IN  /\ Len(lines) = 9
            /\ Len(ConfigKeys) = 9
            /\ \A k \in 1..Len(ConfigKeys) :
                  LET key == ConfigKeys[k] IN
                  /\ Cardinality(LinesAt(lines, key)) = 1
                  /\ \A i \in LinesAt(lines, key) :
                        RawValue(lines[i]) = IF HasSpace(value[key])
                                             THEN Quoted(value[key])
                                             ELSE value[key]

\* init() has written a file with a quoted COMPONENTS and a bare MIRRORSITE.
C19_Witness ==
    \E c \in Initialized :
        /\ <<"COMPONENTS", "=", "\"", "main", " ", "universe", "\"">>
              \in LinesOf(configfile.text, "COMPONENTS")
        /\ <<"MIRRORSITE", "=", "http://mirror/ubuntu/">>
              \in LinesOf(configfile.text, "MIRRORSITE")

-----------------------------------------------------------------------------
(* C20 *)

\* C20 as claimed: the standard error of each pbuilder subprocess goes where
\* its standard output goes, which is the logger of the caller, and without
\* a logger the output is discarded.
C20_DiscardedWithoutLogger ==
    \A c \in Spawned :
        /\ StderrOf(sub[c]) = StdoutOf(sub[c])
        /\ args[c].logger # PyNone => StdoutOf(sub[c]) = args[c].logger.name
        /\ args[c].logger = PyNone => StdoutOf(sub[c]) = "/dev/null"

\* C20 as amended: the standard error of each pbuilder subprocess goes where
\* its standard output goes, which is the logger of the caller, and without
\* a logger it is the standard output of the calling process.
C20_InheritedWithoutLogger ==
    \A c \in Spawned :
        /\ sub[c].stdout = args[c].logger
        /\ StderrOf(sub[c]) = StdoutOf(sub[c])
        /\ args[c].logger # PyNone => StdoutOf(sub[c]) = args[c].logger.name
        /\ args[c].logger = PyNone =>
              StdoutOf(sub[c]) = "stdout of the calling process"

\* build() without a logger has spawned its build subprocess: both streams
\* of it go to the standard output of the calling process.
C20_Witness ==
    \E c \in Spawned :
        /\ sub[c].mode = "build"
        /\ args[c].logger = PyNone
        /\ StderrOf(sub[c]) = "stdout of the calling process"

====
